---- MODULE Spec2Model ----
(***************************************************************************)
(* Study-optm: the study scheduler (src/src/scheduler.ts) and the plan     *)
(* replacement of POST /api/schedule/generate (server, src/unnamed/        *)
(* part_000).                                                              *)
(*                                                                         *)
(* Units.  Hours are counted in half hours, so that the 0.5 h revision     *)
(* session is the integer 1 and the 2 h chunk is 4.  Instants (JavaScript  *)
(* Date values) are counted in ticks, TicksPerDay ticks to a day; a        *)
(* calendar date string "YYYY-MM-DD" is the number of its UTC day.  The    *)
(* process runs in UTC without daylight saving, so Date.setDate(+k) adds   *)
(* k whole days.                                                           *)
(***************************************************************************)
EXTENDS Integers, Sequences, FiniteSets, TLC

\* ------------------------------------------------------------------ bounds
MaxSubjects == 2
TicksPerDay == 2
\* longest list given to mergeSortSubjects on its own
MaxSortLen == 4
\* a MinHeap on its own: number of insert calls, and finite keys 1..MaxKey
MaxInserts == 4
MaxKey == 2

\* ------------------------------------------------------- program constants
totalDaysToPlan == 30
MaxChunk == 4
RevisionHours == 1
DefaultMaxDailyHours == 12

RevisionOffsets == <<1, 3, 7>>

\* --------------------------------------------------------- input universes
\* Exam instants: noon-ish of day 1 (an examDate string that carries a time
\* of day) and midnight of day 5 (a date-only string).
NearExam == TicksPerDay + 1
FarExam == 5 * TicksPerDay

\* difficulty, examDate, estimatedHours (half hours) of the subjects a caller
\* passes: difficulties 1 and 5 with either exam, and one subject of
\* difficulty 0.
Profiles ==
  { <<diff, NearExam, 5>> : diff \in {1, 5} }
    \cup { <<diff, FarExam, 9>> : diff \in {1, 5} }
    \cup { <<0, FarExam, 5>> }

\* maxDailyHours in half hours: 0, 3 h and the default 6 h
DailyHours == {0, 6, DefaultMaxDailyHours}
\* the run starts on day 0, at any time of that day
StartDates == 0..(TicksPerDay - 1)

\* A subject entry.  name is the position of the entry in the caller's list
\* (names are passed through to the items and decide nothing); the id of
\* entry i is i, or 1 to make it a duplicate of the id of the first entry.
SubjectOf(i, dup, profile) ==
  [id |-> IF dup THEN 1 ELSE i, name |-> i, difficulty |-> profile[1],
   examDate |-> profile[2], estimatedHours |-> profile[3]]

SubjectLists ==
  UNION {
    { [i \in 1..n |-> SubjectOf(i, c[i][1], c[i][2])] :
        c \in [1..n -> BOOLEAN \X Profiles] }
    : n \in 0..MaxSubjects }

\* The plan stored for the user before the request.
OldPlan == << [subject_id |-> 1, date |-> -1, hours |-> MaxChunk, type |-> "study"] >>

\* ------------------------------------------------------------------ helpers
Min(a, b) == IF a < b THEN a ELSE b
Max(a, b) == IF a > b THEN a ELSE b
CeilDiv(a, b) == -((-a) \div b)

\* new Date(NaN), new Date("no date"): a Date that holds no instant.
InvalidDate == -1
\* toISOString() throws a RangeError on it (line 140)
ToISOStringThrows(t) == t = InvalidDate

\* toISOString().split('T')[0]: the UTC calendar day of an instant.
DateStr(t) == t \div TicksPerDay
\* new Date("YYYY-MM-DD"): midnight UTC of that day.
ParseDate(day) == day * TicksPerDay
\* Date.setDate(getDate() + k)
AddDays(t, k) == t + k * TicksPerDay

\* ------------------------------------------------------------- MinHeap
\* A priority is the quotient num / den of line 156, kept as a pair.
\* den = 0 is +Infinity (num >= 1), den < 0 is a negative number.
PriorityLess(p, q) ==
  LET pn == IF p[2] < 0 THEN -p[1] ELSE p[1]
      pd == IF p[2] < 0 THEN -p[2] ELSE p[2]
      qn == IF q[2] < 0 THEN -q[1] ELSE q[1]
      qd == IF q[2] < 0 THEN -q[2] ELSE q[2]
  IN  IF pd = 0 THEN FALSE
      ELSE IF qd = 0 THEN TRUE
      ELSE pn * qd < qn * pd

\* heap arrays are 0-based in the source: At(h, i) is this.heap[i]
At(h, i) == h[i + 1]
Swap(h, i, j) == [h EXCEPT ![i + 1] = h[j + 1], ![j + 1] = h[i + 1]]

\* heapifyUp that leaves the pushed element where it is
heapifyUp_NoSift(h, current) == h

\* heapifyUp that stops after one swap
heapifyUp_OneSwap(h, current) ==
  IF current > 0
  THEN LET parent == (current - 1) \div 2
       IN  IF PriorityLess(At(h, current).priority, At(h, parent).priority)
           THEN Swap(h, current, parent)
           ELSE h
  ELSE h

\* lines 43-52
RECURSIVE heapifyUp(_, _)
heapifyUp(h, current) ==
  IF current > 0
  THEN LET parent == (current - 1) \div 2
       IN  IF PriorityLess(At(h, current).priority, At(h, parent).priority)
           THEN heapifyUp(Swap(h, current, parent), parent)
           ELSE h
  ELSE h

\* heapifyDown that never looks at the right child
RECURSIVE heapifyDown_LeftOnly(_, _)
heapifyDown_LeftOnly(h, current) ==
  LET left == 2 * current + 1
      smallest == IF left < Len(h) /\ PriorityLess(At(h, left).priority, At(h, current).priority)
                  THEN left ELSE current
  IN  IF smallest # current
      THEN heapifyDown_LeftOnly(Swap(h, current, smallest), smallest)
      ELSE h

\* lines 54-73
RECURSIVE heapifyDown(_, _)
heapifyDown(h, current) ==
  LET left == 2 * current + 1
      right == 2 * current + 2
      s1 == IF left < Len(h) /\ PriorityLess(At(h, left).priority, At(h, current).priority)
            THEN left ELSE current
      smallest == IF right < Len(h) /\ PriorityLess(At(h, right).priority, At(h, s1).priority)
                  THEN right ELSE s1
  IN  IF smallest # current
      THEN heapifyDown(Swap(h, current, smallest), smallest)
      ELSE h

insert(h, priority, value) ==
  heapifyUp(Append(h, [priority |-> priority, value |-> value]), Len(h))

\* the null of line 34
Null == [null |-> TRUE]

\* extractMin: the returned payload (Null from an empty heap) and the heap
\* left behind.
extractMin(h) ==
  IF Len(h) = 0
  THEN [value |-> Null, heap |-> h]
  ELSE IF Len(h) = 1
  THEN [value |-> h[1].value, heap |-> <<>>]
  ELSE [value |-> h[1].value,
        heap |-> heapifyDown([SubSeq(h, 1, Len(h) - 1) EXCEPT ![1] = h[Len(h)]], 0)]

isEmpty(h) == Len(h) = 0

\* ---------------------------------------------------------- merge sort
\* line 104 with the difficulty test written <
TakeLeft_Ascending(l, r) ==
  l.examDate < r.examDate
    \/ (l.examDate = r.examDate /\ l.difficulty < r.difficulty)

\* lines 99-104
TakeLeft(l, r) ==
  l.examDate < r.examDate
    \/ (l.examDate = r.examDate /\ l.difficulty > r.difficulty)

RECURSIVE merge(_, _)
merge(left, right) ==
  IF left = <<>> \/ right = <<>>
  THEN left \o right
  ELSE IF TakeLeft(Head(left), Head(right))
       THEN <<Head(left)>> \o merge(Tail(left), right)
       ELSE <<Head(right)>> \o merge(left, Tail(right))

RECURSIVE mergeSortSubjects(_)
mergeSortSubjects(s) ==
  IF Len(s) <= 1
  THEN s
  ELSE LET mid == Len(s) \div 2
       IN  merge(mergeSortSubjects(SubSeq(s, 1, mid)),
                 mergeSortSubjects(SubSeq(s, mid + 1, Len(s))))

\* ------------------------------------------------------ generateSchedule
\* Map.set / Map.get of remainingHoursMap
MapSet(m, k, v) == [x \in (DOMAIN m) \cup {k} |-> IF x = k THEN v ELSE m[x]]
MapGet(m, k) == IF k \in DOMAIN m THEN m[k] ELSE 0

RECURSIVE InitRemaining(_, _)
InitRemaining(sorted, m) ==
  IF sorted = <<>> THEN m
  ELSE InitRemaining(Tail(sorted), MapSet(m, Head(sorted).id, Head(sorted).estimatedHours))

EmptyMap == [x \in {} |-> 0]

\* line 151 without Math.max(1, ...)
diffDays_NoClamp(s, cur) == CeilDiv(s.examDate - cur, TicksPerDay)

\* line 151
diffDays(s, cur) == Max(1, CeilDiv(s.examDate - cur, TicksPerDay))
\* line 156 with * written for /
Priority_Product(s, cur) == <<diffDays(s, cur) * s.difficulty, 1>>

\* line 156
Priority(s, cur) == <<diffDays(s, cur), s.difficulty>>

\* lines 145-160: the queue of one day
RECURSIVE BuildQueue(_, _, _, _)
BuildQueue(sorted, rem, cur, h) ==
  IF sorted = <<>> THEN h
  ELSE LET s == Head(sorted)
       IN  BuildQueue(Tail(sorted), rem, cur,
                      IF MapGet(rem, s.id) > 0 /\ diffDays(s, cur) > 0
                      THEN insert(h, Priority(s, cur), s)
                      ELSE h)

\* line 168 without the daily capacity / without the remaining workload
Chunk_NoCapacity(remaining, max, allocated) == Min(MaxChunk, remaining)
Chunk_NoRemaining(remaining, max, allocated) == Min(MaxChunk, max - allocated)

\* line 168 without the 2 h limit
Chunk_NoLimit(remaining, max, allocated) == Min(remaining, max - allocated)

\* line 168
Chunk(remaining, max, allocated) == Min(MaxChunk, Min(remaining, max - allocated))

StudyItem(s, cur, chunk) ==
  [date |-> DateStr(cur), subjectId |-> s.id, subjectName |-> s.name,
   hours |-> chunk, type |-> "study"]

RevisionItem(s, day) ==
  [date |-> day, subjectId |-> s.id, subjectName |-> s.name,
   hours |-> RevisionHours, type |-> "revision"]

\* lines 183-198 with the cut-off test written <=
RECURSIVE Revisions_OnExamDay(_, _, _)
Revisions_OnExamDay(s, cur, offsets) ==
  IF offsets = <<>> THEN <<>>
  ELSE LET revDateStr == DateStr(AddDays(cur, Head(offsets)))
       IN  (IF ParseDate(revDateStr) <= s.examDate
            THEN <<RevisionItem(s, revDateStr)>> ELSE <<>>)
           \o Revisions_OnExamDay(s, cur, Tail(offsets))

\* lines 183-198
RECURSIVE Revisions(_, _, _)
Revisions(s, cur, offsets) ==
  IF offsets = <<>> THEN <<>>
  ELSE LET revDateStr == DateStr(AddDays(cur, Head(offsets)))
       IN  (IF ParseDate(revDateStr) < s.examDate
            THEN <<RevisionItem(s, revDateStr)>> ELSE <<>>)
           \o Revisions(s, cur, Tail(offsets))

\* one iteration that counts the revision sessions in the day's hours
AllocStep_CountRevisions(h, rem, allocated, cur, max) ==
  LET ex == extractMin(h)
      s == ex.value
      remaining == rem[s.id]
      chunk == Chunk(remaining, max, allocated)
  IN  IF s = Null
      THEN [heap |-> ex.heap, rem |-> rem, allocated |-> allocated, items |-> <<>>,
            threw |-> TRUE]
      ELSE IF chunk > 0
      THEN [heap |-> ex.heap,
            rem |-> MapSet(rem, s.id, remaining - chunk),
            allocated |-> allocated + chunk
                            + RevisionHours * Len(Revisions(s, cur, RevisionOffsets)),
            items |-> <<StudyItem(s, cur, chunk)>> \o Revisions(s, cur, RevisionOffsets),
            threw |-> FALSE]
      ELSE [heap |-> ex.heap, rem |-> rem, allocated |-> allocated, items |-> <<>>,
            threw |-> FALSE]

\* one iteration without the test chunk > 0 of line 170
AllocStep_NoGuard(h, rem, allocated, cur, max) ==
  LET ex == extractMin(h)
      s == ex.value
      remaining == rem[s.id]
      chunk == Chunk(remaining, max, allocated)
  IN  IF s = Null
      THEN [heap |-> ex.heap, rem |-> rem, allocated |-> allocated, items |-> <<>>,
            threw |-> TRUE]
      ELSE [heap |-> ex.heap,
            rem |-> MapSet(rem, s.id, remaining - chunk),
            allocated |-> allocated + chunk,
            items |-> <<StudyItem(s, cur, chunk)>> \o Revisions(s, cur, RevisionOffsets),
            threw |-> FALSE]

\* one iteration that puts a subject with hours left back into the queue
AllocStep_Reinsert(h, rem, allocated, cur, max) ==
  LET ex == extractMin(h)
      s == ex.value
      remaining == rem[s.id]
      chunk == Chunk(remaining, max, allocated)
  IN  IF s = Null
      THEN [heap |-> ex.heap, rem |-> rem, allocated |-> allocated, items |-> <<>>,
            threw |-> TRUE]
      ELSE IF chunk > 0
      THEN [heap |-> IF remaining - chunk > 0
                     THEN insert(ex.heap, Priority(s, cur), s) ELSE ex.heap,
            rem |-> MapSet(rem, s.id, remaining - chunk),
            allocated |-> allocated + chunk,
            items |-> <<StudyItem(s, cur, chunk)>> \o Revisions(s, cur, RevisionOffsets),
            threw |-> FALSE]
      ELSE [heap |-> ex.heap, rem |-> rem, allocated |-> allocated, items |-> <<>>,
            threw |-> FALSE]

\* lines 164-199: one iteration of the allocation loop
\* threw: subject is null and subject.id of line 165 throws a TypeError.
AllocStep(h, rem, allocated, cur, max) ==
  LET ex == extractMin(h)
      s == ex.value
      remaining == rem[s.id]
      chunk == Chunk(remaining, max, allocated)
  IN  IF s = Null
      THEN [heap |-> ex.heap, rem |-> rem, allocated |-> allocated, items |-> <<>>,
            threw |-> TRUE]
      ELSE IF chunk > 0
      THEN [heap |-> ex.heap,
            rem |-> MapSet(rem, s.id, remaining - chunk),
            allocated |-> allocated + chunk,
            items |-> <<StudyItem(s, cur, chunk)>> \o Revisions(s, cur, RevisionOffsets),
            threw |-> FALSE]
      ELSE [heap |-> ex.heap, rem |-> rem, allocated |-> allocated, items |-> <<>>,
            threw |-> FALSE]

\* line 163 stopping as soon as anything was allocated
LoopCond_UntilFirst(h, allocated, max) == ~isEmpty(h) /\ allocated < max /\ allocated = 0

\* line 163 without the isEmpty test
LoopCond_NoEmpty(h, allocated, max) == allocated < max

\* line 163
LoopCond(h, allocated, max) == ~isEmpty(h) /\ allocated < max

\* lines 163-200: the whole allocation loop of one day, as a function
RECURSIVE AllocLoop(_, _, _, _, _)
AllocLoop(h, rem, allocated, cur, max) ==
  IF LoopCond(h, allocated, max)
  THEN LET r == AllocStep(h, rem, allocated, cur, max)
           rest == AllocLoop(r.heap, r.rem, r.allocated, cur, max)
       IN  IF r.threw THEN [rem |-> rem, items |-> <<>>, threw |-> TRUE]
           ELSE [rem |-> rest.rem, items |-> r.items \o rest.items, threw |-> rest.threw]
  ELSE [rem |-> rem, items |-> <<>>, threw |-> FALSE]

\* lines 139-203: the day loop from day dd on, as a function
RECURSIVE RunDays(_, _, _, _, _)
RunDays(sorted, rem, cur, dd, max) ==
  IF dd < totalDaysToPlan
  THEN LET day == AllocLoop(BuildQueue(sorted, rem, cur, <<>>), rem, 0, cur, max)
       IN  IF day.threw THEN day.items
           ELSE day.items \o RunDays(sorted, day.rem, AddDays(cur, 1), dd + 1, max)
  ELSE <<>>

\* lines 120-206: the value generateSchedule returns
generateSchedule(subs, start, max) ==
  RunDays(mergeSortSubjects(subs), InitRemaining(mergeSortSubjects(subs), EmptyMap),
          start, 0, max)

VARIABLES subjects, startDate, maxDailyHours,
          sortedSubjects, remainingHoursMap, currentDate, d,
          hoursAllocatedToday, pq, schedule, pc,
          study_plan, txnRows,
          inserted, returned, other

\* inserted, returned: the elements given to pq.insert and the values
\* pq.extractMin returned, in order (history of the heap operations).
\* other: the locals of a second invocation of generateSchedule.
vars == <<subjects, startDate, maxDailyHours,
          sortedSubjects, remainingHoursMap, currentDate, d,
          hoursAllocatedToday, pq, schedule, pc,
          study_plan, txnRows,
          inserted, returned, other>>

inputs == <<subjects, startDate, maxDailyHours>>
store == <<study_plan, txnRows>>
aux == <<inserted, returned, other>>

\* no second invocation
NoRun == [pc |-> "none"]

Init ==
  /\ subjects \in SubjectLists
  /\ startDate \in StartDates
  /\ maxDailyHours \in DailyHours
  /\ sortedSubjects = <<>>
  /\ remainingHoursMap = EmptyMap
  /\ currentDate = startDate
  /\ d = 0
  /\ hoursAllocatedToday = 0
  /\ pq = <<>>
  /\ schedule = <<>>
  /\ pc = "start"
  /\ study_plan = OldPlan
  /\ txnRows = <<>>
  /\ inserted = {}
  /\ returned = <<>>
  /\ other = NoRun

\* lines 125-137
Begin ==
  /\ pc = "start"
  /\ sortedSubjects' = mergeSortSubjects(subjects)
  /\ remainingHoursMap' = InitRemaining(mergeSortSubjects(subjects), EmptyMap)
  /\ currentDate' = startDate
  /\ schedule' = <<>>
  /\ d' = 0
  /\ pc' = "loop"
  /\ UNCHANGED <<aux, inputs, hoursAllocatedToday, pq, store>>

\* the queue of the day before, kept
NewHeap_Carried(old) == old
\* line 145: new MinHeap(), whatever the queue of the day before held
NewHeap(old) == <<>>

\* lines 139-160
StartDay ==
  /\ pc = "loop"
  /\ d < totalDaysToPlan
  /\ IF ToISOStringThrows(currentDate)
     THEN /\ pc' = "threw"
          /\ UNCHANGED <<hoursAllocatedToday, pq>>
     ELSE /\ hoursAllocatedToday' = 0
          /\ pq' = BuildQueue(sortedSubjects, remainingHoursMap, currentDate, NewHeap(pq))
          /\ pc' = "alloc"
  /\ UNCHANGED <<aux, inputs, sortedSubjects, remainingHoursMap, currentDate, d, schedule, store>>

\* lines 163-200, one iteration
Allocate ==
  /\ pc = "alloc"
  /\ LoopCond(pq, hoursAllocatedToday, maxDailyHours)
  /\ LET r == AllocStep(pq, remainingHoursMap, hoursAllocatedToday, currentDate, maxDailyHours)
     IN  /\ pq' = r.heap
         /\ remainingHoursMap' = r.rem
         /\ hoursAllocatedToday' = r.allocated
         /\ schedule' = schedule \o r.items
         /\ pc' = IF r.threw THEN "threw" ELSE pc
  /\ UNCHANGED <<aux, inputs, sortedSubjects, currentDate, d, store>>

\* the caller's Date if currentDate were the same object as startDate
CallerDate_Aliased(start, cur) == cur
\* line 132: currentDate is a new Date object, so the setDate of line 202
\* leaves the caller's startDate as it is
CallerDate(start, cur) == start

\* line 202 and the loop increment
EndDay ==
  /\ pc = "alloc"
  /\ ~LoopCond(pq, hoursAllocatedToday, maxDailyHours)
  /\ currentDate' = AddDays(currentDate, 1)
  /\ startDate' = CallerDate(startDate, AddDays(currentDate, 1))
  /\ d' = d + 1
  /\ pc' = "loop"
  /\ UNCHANGED <<aux, subjects, maxDailyHours, sortedSubjects, remainingHoursMap,
                 hoursAllocatedToday, pq, schedule, store>>

\* line 205
Return ==
  /\ pc = "loop"
  /\ d >= totalDaysToPlan
  /\ pc' = "done"
  /\ UNCHANGED <<aux, inputs, sortedSubjects, remainingHoursMap, currentDate, d,
                 hoursAllocatedToday, pq, schedule, store>>

\* ------------------------------------------- POST /api/schedule/generate
\* The handler reads the user's subjects (ids are the primary key of the
\* subjects table), answers 400 when there are none, and calls
\* generateSchedule(mappedSubjects, new Date()) with the default capacity.
DistinctIds(s) == \A i, j \in 1..Len(s) : s[i].id = s[j].id => i = j
HandlerCall ==
  /\ subjects # <<>>
  /\ DistinctIds(subjects)
  /\ maxDailyHours = DefaultMaxDailyHours

Row(item) ==
  [subject_id |-> item.subjectId, date |-> item.date, hours |-> item.hours,
   type |-> item.type]

RECURSIVE Rows(_)
Rows(items) == IF items = <<>> THEN <<>> ELSE <<Row(Head(items))>> \o Rows(Tail(items))

\* line 111: DELETE FROM study_plan, autocommitted; then the transaction opens
ClearOldPlan ==
  /\ pc = "done"
  /\ HandlerCall
  /\ study_plan' = <<>>
  /\ txnRows' = <<>>
  /\ pc' = "insert"
  /\ UNCHANGED <<aux, inputs, sortedSubjects, remainingHoursMap, currentDate, d,
                 hoursAllocatedToday, pq, schedule>>

\* lines 116-118: one insertStmt.run inside the transaction
InsertRow ==
  /\ pc = "insert"
  /\ Len(txnRows) < Len(schedule)
  /\ txnRows' = Append(txnRows, Row(schedule[Len(txnRows) + 1]))
  /\ UNCHANGED <<aux, inputs, sortedSubjects, remainingHoursMap, currentDate, d,
                 hoursAllocatedToday, pq, schedule, pc, study_plan>>

\* insertStmt.run throws: better-sqlite3 rolls the transaction back and the
\* exception leaves the handler
InsertFails ==
  /\ pc = "insert"
  /\ Len(txnRows) < Len(schedule)
  /\ txnRows' = <<>>
  /\ pc' = "failed"
  /\ UNCHANGED <<aux, inputs, sortedSubjects, remainingHoursMap, currentDate, d,
                 hoursAllocatedToday, pq, schedule, study_plan>>

\* lines 121-123: COMMIT and the response
Commit ==
  /\ pc = "insert"
  /\ Len(txnRows) = Len(schedule)
  /\ study_plan' = study_plan \o txnRows
  /\ txnRows' = <<>>
  /\ pc' = "responded"
  /\ UNCHANGED <<aux, inputs, sortedSubjects, remainingHoursMap, currentDate, d,
                 hoursAllocatedToday, pq, schedule>>

\* the process dies between the DELETE and the COMMIT: SQLite discards the
\* open transaction, the autocommitted DELETE stays
Crash ==
  /\ pc = "insert"
  /\ txnRows' = <<>>
  /\ pc' = "crashed"
  /\ UNCHANGED <<aux, inputs, sortedSubjects, remainingHoursMap, currentDate, d,
                 hoursAllocatedToday, pq, schedule, study_plan>>

Next ==
  \/ Begin \/ StartDay \/ Allocate \/ EndDay \/ Return
  \/ ClearOldPlan \/ InsertRow \/ InsertFails \/ Commit \/ Crash

Spec == Init /\ [][Next]_vars

\* generateSchedule called by any caller: the start may be an invalid Date.
InitAnyStart ==
  /\ subjects \in SubjectLists
  /\ startDate \in StartDates \cup {InvalidDate}
  /\ maxDailyHours \in DailyHours
  /\ sortedSubjects = <<>>
  /\ remainingHoursMap = EmptyMap
  /\ currentDate = startDate
  /\ d = 0
  /\ hoursAllocatedToday = 0
  /\ pq = <<>>
  /\ schedule = <<>>
  /\ pc = "start"
  /\ study_plan = OldPlan
  /\ txnRows = <<>>
  /\ inserted = {}
  /\ returned = <<>>
  /\ other = NoRun

AnyStartSpec == InitAnyStart /\ [][Next]_vars

\* generateSchedule is synchronous straight-line code: once called, it keeps
\* taking its next step until it returns or throws.
Generate == Begin \/ StartDay \/ Allocate \/ EndDay \/ Return

\* every subjects list and capacity, from midnight of day 0
InitFair ==
  /\ subjects \in SubjectLists
  /\ startDate = 0
  /\ maxDailyHours \in DailyHours
  /\ sortedSubjects = <<>>
  /\ remainingHoursMap = EmptyMap
  /\ currentDate = startDate
  /\ d = 0
  /\ hoursAllocatedToday = 0
  /\ pq = <<>>
  /\ schedule = <<>>
  /\ pc = "start"
  /\ study_plan = OldPlan
  /\ txnRows = <<>>
  /\ inserted = {}
  /\ returned = <<>>
  /\ other = NoRun

FairSpec == InitFair /\ [][Next]_vars /\ WF_vars(Generate)

\* ---------------------------------------------- days that end with a queue
\* generateSchedule with a capacity of one full chunk a day (2 h): the
\* allocation loop stops on the capacity and leaves the other subjects in
\* the queue.
InitTight ==
  /\ subjects \in SubjectLists
  /\ startDate \in StartDates
  /\ maxDailyHours = MaxChunk
  /\ sortedSubjects = <<>>
  /\ remainingHoursMap = EmptyMap
  /\ currentDate = startDate
  /\ d = 0
  /\ hoursAllocatedToday = 0
  /\ pq = <<>>
  /\ schedule = <<>>
  /\ pc = "start"
  /\ study_plan = OldPlan
  /\ txnRows = <<>>
  /\ inserted = {}
  /\ returned = <<>>
  /\ other = NoRun

NextTight == Begin \/ StartDay \/ Allocate \/ EndDay \/ Return
TightSpec == InitTight /\ [][NextTight]_vars

\* ------------------------------------------------------ the whole horizon
\* Subjects of 2.5 h, of exactly the 60 h that 30 days of 2 h chunks give,
\* and of 61 h; distinct ids.
HorizonProfiles ==
  { <<5, FarExam, 5>>,
    <<1, FarExam, MaxChunk * totalDaysToPlan>>,
    <<5, NearExam, MaxChunk * totalDaysToPlan + 2>> }

HorizonLists ==
  UNION {
    { [i \in 1..n |-> SubjectOf(i, FALSE, c[i])] : c \in [1..n -> HorizonProfiles] }
    : n \in 0..MaxSubjects }

InitHorizon ==
  /\ subjects \in HorizonLists
  /\ startDate \in StartDates
  /\ maxDailyHours \in DailyHours
  /\ sortedSubjects = <<>>
  /\ remainingHoursMap = EmptyMap
  /\ currentDate = startDate
  /\ d = 0
  /\ hoursAllocatedToday = 0
  /\ pq = <<>>
  /\ schedule = <<>>
  /\ pc = "start"
  /\ study_plan = OldPlan
  /\ txnRows = <<>>
  /\ inserted = {}
  /\ returned = <<>>
  /\ other = NoRun

NextHorizon == Begin \/ StartDay \/ Allocate \/ EndDay \/ Return
HorizonSpec == InitHorizon /\ [][NextHorizon]_vars

\* ------------------------------------------------- two invocations at once
\* A second invocation of generateSchedule, whose locals are the fields of
\* other, takes its steps in any interleaving with the steps of the first.
\* Both are given one subject with the same id and the same start instant,
\* midnight of day 0.

\* the remaining-workload map the second invocation reads (line 129: a local)
RemainingOf_Shared(r, shared) == shared
RemainingOf(r, shared) == r.remainingHoursMap

OneSubjectLists == { << SubjectOf(1, FALSE, p) >> : p \in Profiles }

\* lines 125-205 on the locals r, one step
StepOf(r, shared) ==
  IF r.pc = "start"
  THEN [r EXCEPT !.sortedSubjects = mergeSortSubjects(r.subjects),
                 !.remainingHoursMap = InitRemaining(mergeSortSubjects(r.subjects), EmptyMap),
                 !.currentDate = r.startDate,
                 !.schedule = <<>>,
                 !.d = 0,
                 !.pc = "loop"]
  ELSE IF r.pc = "loop"
  THEN IF r.d < totalDaysToPlan
       THEN IF ToISOStringThrows(r.currentDate) THEN [r EXCEPT !.pc = "threw"]
            ELSE
            [r EXCEPT !.hoursAllocatedToday = 0,
                      !.pq = BuildQueue(r.sortedSubjects, RemainingOf(r, shared),
                                        r.currentDate, <<>>),
                      !.pc = "alloc"]
       ELSE [r EXCEPT !.pc = "done"]
  ELSE IF LoopCond(r.pq, r.hoursAllocatedToday, r.maxDailyHours)
  THEN LET a == AllocStep(r.pq, RemainingOf(r, shared), r.hoursAllocatedToday,
                          r.currentDate, r.maxDailyHours)
       IN  [r EXCEPT !.pq = a.heap,
                     !.remainingHoursMap = a.rem,
                     !.hoursAllocatedToday = a.allocated,
                     !.schedule = r.schedule \o a.items,
                     !.pc = IF a.threw THEN "threw" ELSE r.pc]
  ELSE [r EXCEPT !.currentDate = AddDays(r.currentDate, 1),
                 !.d = r.d + 1,
                 !.pc = "loop"]

InitTwo ==
  /\ subjects \in OneSubjectLists
  /\ startDate = 0
  /\ maxDailyHours = 6
  /\ sortedSubjects = <<>>
  /\ remainingHoursMap = EmptyMap
  /\ currentDate = startDate
  /\ d = 0
  /\ hoursAllocatedToday = 0
  /\ pq = <<>>
  /\ schedule = <<>>
  /\ pc = "start"
  /\ study_plan = OldPlan
  /\ txnRows = <<>>
  /\ inserted = {}
  /\ returned = <<>>
  /\ \E l \in OneSubjectLists :
       other = [subjects |-> l, startDate |-> startDate, maxDailyHours |-> 6,
                sortedSubjects |-> <<>>, remainingHoursMap |-> EmptyMap,
                currentDate |-> startDate, d |-> 0, hoursAllocatedToday |-> 0,
                pq |-> <<>>, schedule |-> <<>>, pc |-> "start"]

OtherStep ==
  /\ other.pc \in {"start", "loop", "alloc"}
  /\ other' = StepOf(other, remainingHoursMap)
  /\ UNCHANGED <<inputs, sortedSubjects, remainingHoursMap, currentDate, d,
                 hoursAllocatedToday, pq, schedule, pc, store, inserted, returned>>

NextTwo ==
  \/ Begin \/ StartDay \/ Allocate \/ EndDay \/ Return
  \/ OtherStep

TwoSpec == InitTwo /\ [][NextTwo]_vars

\* -------------------------------------------------------------- Scenario A
\* One subject of difficulty 5 and 4 h whose exam is 10 days after the start
\* (as the same time of day, or as a date-only string), capacity 6 h.
SubjectA(exam) ==
  [id |-> 1, name |-> 1, difficulty |-> 5, examDate |-> exam, estimatedHours |-> 8]

InitA ==
  /\ startDate \in StartDates
  /\ \E exam \in {AddDays(startDate, 10), ParseDate(DateStr(AddDays(startDate, 10)))} :
       subjects = << SubjectA(exam) >>
  /\ maxDailyHours = DefaultMaxDailyHours
  /\ sortedSubjects = <<>>
  /\ remainingHoursMap = EmptyMap
  /\ currentDate = startDate
  /\ d = 0
  /\ hoursAllocatedToday = 0
  /\ pq = <<>>
  /\ schedule = <<>>
  /\ pc = "start"
  /\ study_plan = OldPlan
  /\ txnRows = <<>>
  /\ inserted = {}
  /\ returned = <<>>
  /\ other = NoRun

SpecA == InitA /\ [][Next]_vars

\* --------------------------------------------------- a MinHeap on its own
\* Any sequence of insert and extractMin calls on one MinHeap (pq).  Keys are
\* the numbers 1..MaxKey and +Infinity; the payload of the n-th insert is
\* [id |-> n].
HeapKeys == { <<n, 1>> : n \in 1..MaxKey } \cup { <<1, 0>> }

InitHeap ==
  /\ subjects = <<>>
  /\ startDate = 0
  /\ maxDailyHours = DefaultMaxDailyHours
  /\ sortedSubjects = <<>>
  /\ remainingHoursMap = EmptyMap
  /\ currentDate = startDate
  /\ d = 0
  /\ hoursAllocatedToday = 0
  /\ pq = <<>>
  /\ schedule = <<>>
  /\ pc = "heap"
  /\ study_plan = OldPlan
  /\ txnRows = <<>>
  /\ inserted = {}
  /\ returned = <<>>
  /\ other = NoRun

\* lines 28-31
HeapInsert ==
  /\ Cardinality(inserted) < MaxInserts
  /\ \E key \in HeapKeys :
       LET value == [id |-> Cardinality(inserted) + 1]
       IN  /\ pq' = insert(pq, key, value)
           /\ inserted' = inserted \cup {[priority |-> key, value |-> value]}
  /\ UNCHANGED <<inputs, sortedSubjects, remainingHoursMap, currentDate, d,
                 hoursAllocatedToday, schedule, pc, store, returned, other>>

\* lines 33-41
HeapExtract ==
  /\ Len(returned) <= MaxInserts
  /\ pq' = extractMin(pq).heap
  /\ returned' = Append(returned, extractMin(pq).value)
  /\ UNCHANGED <<inputs, sortedSubjects, remainingHoursMap, currentDate, d,
                 hoursAllocatedToday, schedule, pc, store, inserted, other>>

NextHeap == HeapInsert \/ HeapExtract
HeapSpec == InitHeap /\ [][NextHeap]_vars

\* ------------------------------------------- mergeSortSubjects on its own
\* Lists of up to MaxSortLen subjects with distinct ids; the step is line 126
\* (Begin).
SortLists ==
  UNION {
    { [i \in 1..n |-> SubjectOf(i, FALSE, c[i])] : c \in [1..n -> Profiles] }
    : n \in 0..MaxSortLen }

InitSort ==
  /\ subjects \in SortLists
  /\ startDate = 0
  /\ maxDailyHours = DefaultMaxDailyHours
  /\ sortedSubjects = <<>>
  /\ remainingHoursMap = EmptyMap
  /\ currentDate = startDate
  /\ d = 0
  /\ hoursAllocatedToday = 0
  /\ pq = <<>>
  /\ schedule = <<>>
  /\ pc = "start"
  /\ study_plan = OldPlan
  /\ txnRows = <<>>
  /\ inserted = {}
  /\ returned = <<>>
  /\ other = NoRun

NextSort == Begin
SortSpec == InitSort /\ [][NextSort]_vars

\* --------------------------------------------------------------- properties
\* The entry of the caller's list an item was emitted for.
Entry(item) == subjects[item.subjectName]

RECURSIVE StudyHoursOnDate(_, _)
StudyHoursOnDate(items, day) ==
  IF items = <<>> THEN 0
  ELSE (IF Head(items).type = "study" /\ Head(items).date = day THEN Head(items).hours ELSE 0)
       + StudyHoursOnDate(Tail(items), day)

RECURSIVE StudyHoursOfId(_, _)
StudyHoursOfId(items, id) ==
  IF items = <<>> THEN 0
  ELSE (IF Head(items).type = "study" /\ Head(items).subjectId = id THEN Head(items).hours ELSE 0)
       + StudyHoursOfId(Tail(items), id)

RECURSIVE StudyHoursOfEntry(_, _)
StudyHoursOfEntry(items, name) ==
  IF items = <<>> THEN 0
  ELSE (IF Head(items).type = "study" /\ Head(items).subjectName = name THEN Head(items).hours ELSE 0)
       + StudyHoursOfEntry(Tail(items), name)

Dates(items) == {items[i].date : i \in 1..Len(items)}

\* The run, step by step, computes the value of the function.
StepsComputeFunction ==
  pc = "done" => schedule = generateSchedule(subjects, startDate, maxDailyHours)

\* C1: with maxDailyHours > 0, in every state of the run (so after every
\* allocation step) the study hours of the items of any one date sum to at
\* most maxDailyHours.
C1_DailyCapacity ==
  maxDailyHours > 0 =>
    \A day \in Dates(schedule) : StudyHoursOnDate(schedule, day) <= maxDailyHours

\* C1 witness: a day filled to the capacity by a chunk that the capacity cut
\* short of both the 2 hours and the subject's remaining hours.
C1_Witness ==
  /\ pc = "alloc" /\ maxDailyHours > 0
  /\ hoursAllocatedToday = maxDailyHours
  /\ \E i \in 1..Len(schedule) :
       /\ schedule[i].type = "study" /\ schedule[i].date = DateStr(currentDate)
       /\ schedule[i].hours < MaxChunk
       /\ remainingHoursMap[schedule[i].subjectId] > 0

\* C2: with pairwise distinct ids, in every prefix of the output the study
\* hours of a subject sum to at most its estimatedHours.
C2_WithinEstimate ==
  DistinctIds(subjects) =>
    \A n \in 0..Len(schedule) : \A i \in 1..Len(subjects) :
      StudyHoursOfId(SubSeq(schedule, 1, n), subjects[i].id) <= subjects[i].estimatedHours

\* C2 witness: a finished run of several subjects, each allocated exactly its
\* estimatedHours, the last chunk of one being cut by its remaining hours.
C2_Witness ==
  /\ pc = "done" /\ DistinctIds(subjects) /\ Len(subjects) >= 2
  /\ \A i \in 1..Len(subjects) :
       StudyHoursOfId(schedule, subjects[i].id) = subjects[i].estimatedHours
  /\ \E k \in 1..Len(schedule) :
       schedule[k].type = "study" /\ schedule[k].hours < MaxChunk

InvalidInput ==
  \/ maxDailyHours <= 0
  \/ \E i \in 1..Len(subjects) : subjects[i].difficulty <= 0

\* Position of the entry named name in a list of subjects.
Pos(list, name) == CHOOSE k \in 1..Len(list) : list[k].name = name

\* C3: mergeSortSubjects is stable: two subjects with the same examDate and
\* the same difficulty keep in the sorted list the relative order they have
\* in the input list (stated for valid subjects with distinct ids).
C3_Stable ==
  (pc # "start" /\ DistinctIds(subjects) /\ ~InvalidInput) =>
    \A i, j \in 1..Len(subjects) :
      (i < j /\ subjects[i].examDate = subjects[j].examDate
             /\ subjects[i].difficulty = subjects[j].difficulty)
        => Pos(sortedSubjects, i) < Pos(sortedSubjects, j)

\* The offsets of the revisions a study item calls for: those k whose date
\* T + k (midnight) is strictly before the examDate of the item's subject.
RevisionsDue(item) ==
  SelectSeq(RevisionOffsets,
            LAMBDA k : ParseDate(item.date + k) < Entry(item).examDate)

\* C4: every study item (date T, subject S) is followed in the output by
\* exactly one revision item (hours 0.5, subject S, date T + k) for each k of
\* 1, 3, 7 with T + k strictly before S.examDate and by none for the other
\* k; the output holds no other revision item, so none is dated on or after
\* its subject's examDate, and equal revisions of different chunks are all
\* kept.
C4_Revisions ==
  /\ schedule # <<>> => schedule[1].type = "study"
  /\ \A i \in 1..Len(schedule) :
       schedule[i].type = "study" =>
         LET due == RevisionsDue(schedule[i])
             next == i + Len(due) + 1
         IN  /\ next <= Len(schedule) + 1
             /\ \A j \in 1..Len(due) :
                  schedule[i + j] =
                    [date |-> schedule[i].date + due[j],
                     subjectId |-> schedule[i].subjectId,
                     subjectName |-> schedule[i].subjectName,
                     hours |-> RevisionHours, type |-> "revision"]
             /\ next <= Len(schedule) => schedule[next].type = "study"
  /\ \A i \in 1..Len(schedule) :
       schedule[i].type = "revision" =>
         ParseDate(schedule[i].date) < Entry(schedule[i]).examDate

\* C4 witness: one study chunk has a revision suppressed by the exam date,
\* and two chunks of one subject have each emitted a revision for the same
\* date.
C4_Witness ==
  /\ \E i \in 1..Len(schedule) :
       schedule[i].type = "study" /\ Len(RevisionsDue(schedule[i])) \in 1..2
  /\ \E i, j \in 1..Len(schedule) :
       i < j /\ schedule[i].type = "revision" /\ schedule[i] = schedule[j]

\* Scenario C: entries h (difficulty 5) and e (difficulty 1) of a list with
\* pairwise distinct ids have the same examDate and estimatedHours.
ScenarioC(h, e) ==
  /\ DistinctIds(subjects)
  /\ subjects[h].difficulty = 5 /\ subjects[e].difficulty = 1
  /\ subjects[h].examDate = subjects[e].examDate
  /\ subjects[h].estimatedHours = subjects[e].estimatedHours

Before(j) == SubSeq(schedule, 1, j - 1)

\* C5 as stated: in Scenario C the easier subject receives a study chunk on
\* a day only once the harder subject's remaining hours or the day's
\* capacity are exhausted.
C5_HarderUntilExhausted ==
  \A h, e \in 1..Len(subjects) :
    ScenarioC(h, e) =>
      \A j \in 1..Len(schedule) :
        (schedule[j].type = "study" /\ schedule[j].subjectName = e) =>
          \/ StudyHoursOfEntry(Before(j), h) = subjects[h].estimatedHours
          \/ StudyHoursOnDate(Before(j), schedule[j].date) >= maxDailyHours

\* C5 amended: in Scenario C the easier subject receives a study chunk on a
\* day only after the harder subject has received its chunk of that day (one
\* chunk of min(2, remaining, capacity left) hours) or when the harder
\* subject has no remaining hours.
C5_HarderFirst ==
  \A h, e \in 1..Len(subjects) :
    ScenarioC(h, e) =>
      \A j \in 1..Len(schedule) :
        (schedule[j].type = "study" /\ schedule[j].subjectName = e) =>
          \/ StudyHoursOfEntry(Before(j), h) = subjects[h].estimatedHours
          \/ \E i \in 1..(j - 1) :
               /\ schedule[i].type = "study" /\ schedule[i].subjectName = h
               /\ schedule[i].date = schedule[j].date
               /\ schedule[i].hours =
                    Min(MaxChunk,
                        Min(subjects[h].estimatedHours - StudyHoursOfEntry(Before(i), h),
                            maxDailyHours - StudyHoursOnDate(Before(i), schedule[i].date)))
               /\ \A k \in 1..(j - 1) :
                    (schedule[k].type = "study" /\ schedule[k].subjectName = h
                       /\ schedule[k].date = schedule[j].date) => k = i

\* C5 witness: in Scenario C both subjects received a chunk on one day, the
\* harder first, and the harder still had hours remaining after its chunk.
C5_Witness ==
  \E h, e \in 1..Len(subjects) :
    /\ ScenarioC(h, e)
    /\ \E i, j \in 1..Len(schedule) :
         /\ i < j /\ schedule[i].date = schedule[j].date
         /\ schedule[i].type = "study" /\ schedule[i].subjectName = h
         /\ schedule[j].type = "study" /\ schedule[j].subjectName = e
         /\ StudyHoursOfEntry(Before(j), h) < subjects[h].estimatedHours

\* The urgency key of the subject of a study item on the day of the item:
\* max(1, ceil(days from that day to examDate)) / difficulty, as a pair.
Urgency(item) ==
  <<Max(1, CeilDiv(Entry(item).examDate - (startDate + item.date * TicksPerDay), TicksPerDay)),
    Entry(item).difficulty>>

\* C6: the study items of one day appear in the output in non-decreasing
\* order of urgency key: none follows an item of the same date whose key is
\* strictly greater.
C6_UrgencyOrder ==
  \A i, j \in 1..Len(schedule) :
    (i < j /\ schedule[i].type = "study" /\ schedule[j].type = "study"
           /\ schedule[i].date = schedule[j].date)
      => ~PriorityLess(Urgency(schedule[j]), Urgency(schedule[i]))

\* C6 witness: two subjects studied on one day in the order of their keys,
\* which is the reverse of their order in the sorted list.
C6_Witness ==
  \E i, j \in 1..Len(schedule) :
    /\ i < j /\ schedule[i].type = "study" /\ schedule[j].type = "study"
    /\ schedule[i].date = schedule[j].date
    /\ PriorityLess(Urgency(schedule[i]), Urgency(schedule[j]))
    /\ Pos(sortedSubjects, schedule[j].subjectName) < Pos(sortedSubjects, schedule[i].subjectName)

\* C7: a call with a subject of difficulty <= 0 or with maxDailyHours <= 0
\* is rejected at once and produces no schedule item.
C7_RejectsInvalidInput ==
  InvalidInput => (pc \in {"start", "rejected"} /\ schedule = <<>>)

\* C8: entries that share an id are independent: the study hours allocated
\* to each entry of the list are at most that entry's estimatedHours.
C8_IndependentEntries ==
  \A i \in 1..Len(subjects) :
    StudyHoursOfEntry(schedule, i) <= subjects[i].estimatedHours

\* C9: the output depends only on the calendar day of startDate: a run
\* started at any other time of the same day returns the same sequence
\* (stated for valid subjects with distinct ids).
C9_DateOnly ==
  (pc = "done" /\ DistinctIds(subjects) /\ ~InvalidInput) =>
    \A t \in StartDates :
      DateStr(t) = DateStr(startDate) =>
        generateSchedule(subjects, t, maxDailyHours) = schedule

PersistPcs == {"insert", "responded", "failed", "crashed"}

\* C10: the stored plan of the user is in every state either the old plan
\* or the complete new plan.
C10_AllOrNothing ==
  \/ study_plan = OldPlan
  \/ (pc \in PersistPcs /\ study_plan = Rows(schedule))
\* ------------------------------------------------------------------ C11
\* The entry's exam day is the simulated day or an earlier one.
ExamReached(s) == DateStr(s.examDate) <= DateStr(currentDate)
EndOfDay == pc = "alloc" /\ ~LoopCond(pq, hoursAllocatedToday, maxDailyHours)
StudiedToday(i) ==
  \E k \in 1..Len(schedule) :
    /\ schedule[k].type = "study"
    /\ schedule[k].subjectName = i
    /\ schedule[k].date = DateStr(currentDate)

IsPermutation(out, in) ==
  /\ Len(out) = Len(in)
  /\ \A i \in 1..Len(in) : Cardinality({k \in 1..Len(out) : out[k] = in[i]}) = 1

InOrder(a, b) ==
  a.examDate < b.examDate \/ (a.examDate = b.examDate /\ a.difficulty >= b.difficulty)

\* C12: the list mergeSortSubjects returns is a permutation of its input in
\* which every adjacent pair is ordered by exam date ascending, then by
\* difficulty descending.
C12_SortedPermutation ==
  pc = "loop" =>
    /\ IsPermutation(sortedSubjects, subjects)
    /\ \A k \in 1..(Len(sortedSubjects) - 1) :
         InOrder(sortedSubjects[k], sortedSubjects[k + 1])

\* A list of three or more that the sort reorders, with two neighbours of
\* the result on the same exam date and of different difficulty.
C12_Witness ==
  /\ pc = "loop"
  /\ Len(subjects) >= 3
  /\ sortedSubjects # subjects
  /\ \E k \in 1..(Len(sortedSubjects) - 1) :
       /\ sortedSubjects[k].examDate = sortedSubjects[k + 1].examDate
       /\ sortedSubjects[k].difficulty > sortedSubjects[k + 1].difficulty

\* ------------------------------------------------------------------ C13
Held(h) == {h[k] : k \in 1..Len(h)}
ReturnedValues == {returned[k] : k \in 1..Len(returned)} \ {Null}
Minimal(e, h) == \A k \in 1..Len(h) : ~PriorityLess(h[k].priority, e.priority)

\* the heap holds, once each, the inserted elements not yet returned, and no
\* payload was returned twice
NoneLostOrDuplicated ==
  /\ Held(pq) = {e \in inserted : e.value \notin ReturnedValues}
  /\ Len(pq) = Cardinality(Held(pq))
  /\ \A i, j \in 1..Len(returned) :
       (returned[i] = returned[j] /\ returned[i] # Null) => i = j

\* what one extractMin call does
ExtractsMinimum ==
  returned' # returned =>
    LET ret == returned'[Len(returned')]
    IN  /\ ret = Null <=> pq = <<>>
        /\ pq = <<>> => pq' = <<>>
        /\ pq # <<>> =>
             \E k \in 1..Len(pq) :
               /\ pq[k].value = ret
               /\ Minimal(pq[k], pq)
               /\ Held(pq') = Held(pq) \ {pq[k]}

\* C13: after any sequence of insert and extractMin, extractMin returns null
\* exactly when the heap is empty and otherwise removes and returns the
\* payload of an element of minimal key; no inserted element is lost or
\* returned twice.
C13_HeapContract == []NoneLostOrDuplicated /\ [][ExtractsMinimum]_vars

\* Four elements went in and came out again, and a further extractMin on the
\* empty heap returned null.
C13_Witness ==
  /\ pc = "heap"
  /\ Cardinality(ReturnedValues) >= 4
  /\ Cardinality({e.priority : e \in inserted}) >= 3
  /\ pq = <<>>
  /\ returned[Len(returned)] = Null

\* ------------------------------------------------------------------ C15
Item(day, hours, type) ==
  [date |-> day, subjectId |-> 1, subjectName |-> 1, hours |-> hours, type |-> type]

ExpectedA ==
  << Item(0, 4, "study"), Item(1, 1, "revision"), Item(3, 1, "revision"),
     Item(7, 1, "revision"),
     Item(1, 4, "study"), Item(2, 1, "revision"), Item(4, 1, "revision"),
     Item(8, 1, "revision") >>

IsPrefix(a, b) == Len(a) <= Len(b) /\ a = SubSeq(b, 1, Len(a))

\* C15: in Scenario A day 0 emits one study item of 2 h followed by the
\* revisions of days 1, 3 and 7, day 1 one study item of 2 h followed by the
\* revisions of days 2, 4 and 8, and nothing is emitted afterwards.
C15_ScenarioA ==
  /\ IsPrefix(schedule, ExpectedA)
  /\ d >= 1 => IsPrefix(SubSeq(ExpectedA, 1, 4), schedule)
  /\ d >= 2 => schedule = ExpectedA

\* The run of Scenario A has returned its eight items.
C15_Witness ==
  /\ pc = "done"
  /\ subjects[1].estimatedHours = 8
  /\ Len(schedule) = 8
  /\ StudyHoursOfId(schedule, 1) = 8

\* ------------------------------------------------------------------ C16
\* A step that changes the queue either builds it at the start of a day or
\* extracts exactly one element.
OneExtractionPerStep == pq' # pq => (pc = "loop" \/ Len(pq') = Len(pq) - 1)
\* The queue of a day holds every entry of the list at most once.
QueuedOnce ==
  \A i, j \in 1..Len(pq) : pq[i].value.name = pq[j].value.name => i = j

\* C16: generateSchedule terminates on every input: it returns after exactly
\* 30 iterations of the day loop, and within a day every iteration of the
\* allocation loop extracts one of the subjects inserted that day, each of
\* which was inserted once.
C16_Terminates ==
  /\ <>(pc = "done")
  /\ [](pc = "done" => d = totalDaysToPlan)
  /\ [](pc \in {"start", "loop", "alloc"} => d <= totalDaysToPlan /\ QueuedOnce)
  /\ [][OneExtractionPerStep]_vars

\* A run over two subjects has returned a non-empty schedule after 30 days.
C16_Witness ==
  /\ pc = "done"
  /\ d = totalDaysToPlan
  /\ Len(subjects) >= 2
  /\ schedule # <<>>

\* ------------------------------------------------------------------ C17
\* C17: whatever the interleaving of the steps of two invocations, each
\* returns the schedule it returns when run alone on its own arguments.
\* Between two days and on return, r has emitted what it emits alone: a
\* prefix of that schedule, with the study hours of every finished day, and
\* the whole of it on return.
AsAlone(r) ==
  LET alone == generateSchedule(r.subjects, r.startDate, r.maxDailyHours)
  IN  /\ IsPrefix(r.schedule, alone)
      /\ \A k \in 0..(r.d - 1) :
           StudyHoursOnDate(r.schedule, DateStr(r.startDate) + k)
             = StudyHoursOnDate(alone, DateStr(r.startDate) + k)
      /\ r.pc = "done" => r.schedule = alone

C17_Isolation ==
  /\ pc \in {"loop", "done"} =>
       AsAlone([subjects |-> subjects, startDate |-> startDate,
                maxDailyHours |-> maxDailyHours, schedule |-> schedule,
                d |-> d, pc |-> pc])
  /\ other.pc \in {"loop", "done"} => AsAlone(other)

\* Both invocations, given different subjects under the same id, have
\* returned, each with study items.
C17_Witness ==
  /\ pc = "done"
  /\ other.pc = "done"
  /\ subjects # other.subjects
  /\ StudyHoursOfId(schedule, 1) > 0
  /\ StudyHoursOfId(other.schedule, 1) > 0
  /\ schedule # other.schedule

\* ------------------------------------------------------------------ C18
NoError == pc # "threw"

NonNegativeEstimates == \A i \in 1..Len(subjects) : subjects[i].estimatedHours >= 0
Started == pc # "start"

\* the entry of every subject is what was estimated less what was emitted
RemainingAccounted ==
  (Started /\ DistinctIds(subjects) /\ NonNegativeEstimates) =>
    \A i \in 1..Len(subjects) :
      /\ remainingHoursMap[subjects[i].id] >= 0
      /\ remainingHoursMap[subjects[i].id] =
           subjects[i].estimatedHours - StudyHoursOfId(schedule, subjects[i].id)

\* no step raises an entry
RemainingNeverIncreases ==
  (Started /\ DistinctIds(subjects) /\ NonNegativeEstimates) =>
    /\ DOMAIN remainingHoursMap' = DOMAIN remainingHoursMap
    /\ \A id \in DOMAIN remainingHoursMap :
         remainingHoursMap'[id] <= remainingHoursMap[id]

\* C19: in a run on distinct ids and non-negative estimates, the remaining
\* workload of each subject is never negative, never increases from one step
\* to the next, and equals its estimatedHours less the hours of the study
\* items emitted for it so far.
C19_RemainingWorkload == []RemainingAccounted /\ [][RemainingNeverIncreases]_vars

\* Two subjects of distinct ids, one partly allocated and one exhausted.
C19_Witness ==
  /\ pc = "alloc"
  /\ Len(subjects) = 2
  /\ DistinctIds(subjects)
  /\ \E i, j \in 1..2 :
       /\ remainingHoursMap[subjects[i].id] > 0
       /\ remainingHoursMap[subjects[i].id] < subjects[i].estimatedHours
       /\ remainingHoursMap[subjects[j].id] = 0
       /\ subjects[j].estimatedHours > 0

\* ------------------------------------------------------------------ C20
\* remaining workload of the id of schedule[j] just before it was emitted
RemainingBefore(j) ==
  InitRemaining(sortedSubjects, EmptyMap)[schedule[j].subjectId]
    - StudyHoursOfId(Before(j), schedule[j].subjectId)
\* hours already allocated on its day
AllocatedBefore(j) == StudyHoursOnDate(Before(j), schedule[j].date)

\* C20: every study item has min(2 h, remaining workload of its subject
\* before the step, capacity left that day) hours, which is positive and at
\* most 2 h; every revision item has 0.5 h; no item has hours <= 0 and no
\* error is raised.
C20_ItemHours ==
  /\ NoError
  /\ \A j \in 1..Len(schedule) :
       /\ schedule[j].hours > 0
       /\ schedule[j].type = "revision" => schedule[j].hours = RevisionHours
       /\ schedule[j].type = "study" =>
            /\ schedule[j].hours =
                 Min(MaxChunk, Min(RemainingBefore(j), maxDailyHours - AllocatedBefore(j)))
            /\ schedule[j].hours <= MaxChunk

\* An entry that was queued today was extracted with a chunk of 0 and
\* skipped: the queue is empty, capacity is left, the entry has no item of
\* today, and the workload under its id was used up today.
C20_Witness ==
  /\ EndOfDay
  /\ pq = <<>>
  /\ hoursAllocatedToday < maxDailyHours
  /\ \E i \in 1..Len(subjects) :
       /\ ~StudiedToday(i)
       /\ subjects[i].difficulty > 0
       /\ remainingHoursMap[subjects[i].id] = 0
       /\ \E k \in 1..Len(schedule) :
            /\ schedule[k].type = "study"
            /\ schedule[k].date = DateStr(currentDate)
            /\ schedule[k].subjectId = subjects[i].id

\* ------------------------------------------------------------------ C21
\* The day that has just ended, and the workload map at its start: every
\* entry as it is now plus the study hours emitted under its id that day.
Yesterday == AddDays(currentDate, -1)
RemainingAtStartOf(cur) ==
  [id \in DOMAIN remainingHoursMap |->
     remainingHoursMap[id] + StudyHoursOfId(
       SelectSeq(schedule, LAMBDA it : it.type = "study" /\ it.date = DateStr(cur)), id)]
IsSuffix(a, b) == Len(a) <= Len(b) /\ a = SubSeq(b, Len(b) - Len(a) + 1, Len(b))

\* the last day, run again from its snapshot, gives the same items and map
DayReplays ==
  LET rem == RemainingAtStartOf(Yesterday)
      day == AllocLoop(BuildQueue(sortedSubjects, rem, Yesterday, <<>>),
                       rem, 0, Yesterday, maxDailyHours)
  IN  /\ day.rem = remainingHoursMap
      /\ IsSuffix(day.items, schedule)
      /\ \A k \in 1..(Len(schedule) - Len(day.items)) :
           schedule[k].type = "study" => schedule[k].date # DateStr(Yesterday)

\* the allocator run again from today's snapshot gives the rest of the run
RestReplays ==
  generateSchedule(subjects, startDate, maxDailyHours)
    = schedule \o RunDays(sortedSubjects, remainingHoursMap, currentDate, d, maxDailyHours)

\* C21: between two days, the items and the workload map of the day that
\* ended are those the allocator gives from the sorted list, that day's
\* date, the map at its start and maxDailyHours alone, and the rest of the
\* full run is what the allocator gives from today's snapshot.
C21_Replayable ==
  /\ (pc = "loop" /\ d >= 1) => DayReplays
  /\ pc = "loop" => RestReplays

\* A day ended with subjects left in the queue (the capacity was reached) and
\* the next day is about to start from the snapshot.
C21_Witness ==
  /\ pc = "loop"
  /\ d >= 1
  /\ pq # <<>>
  /\ hoursAllocatedToday > 0
  /\ \E id \in DOMAIN remainingHoursMap : remainingHoursMap[id] > 0

\* ------------------------------------------------------------------ C22
RevisionDays == {RevisionOffsets[k] : k \in 1..Len(RevisionOffsets)}

\* schedule[j] follows a study item of the same entry dated 1, 3 or 7 days
\* before it
CausedByStudy(j) ==
  \E i \in 1..(j - 1) :
    /\ schedule[i].type = "study"
    /\ schedule[i].subjectName = schedule[j].subjectName
    /\ schedule[i].subjectId = schedule[j].subjectId
    /\ schedule[j].date - schedule[i].date \in RevisionDays

\* the counter of the day and the workload map account for study items only
StudyOnlyAccounting ==
  /\ pc = "alloc" =>
       hoursAllocatedToday = StudyHoursOnDate(schedule, DateStr(currentDate))
  /\ pc \in {"loop", "alloc", "done"} =>
       \A id \in DOMAIN remainingHoursMap :
         remainingHoursMap[id] =
           InitRemaining(sortedSubjects, EmptyMap)[id] - StudyHoursOfId(schedule, id)

\* C22: every revision item follows a study item of the same subject dated
\* exactly 1, 3 or 7 days earlier, and revision items count neither in the
\* hours allocated to the day nor in the remaining workload.
C22_RevisionsFollowStudy ==
  /\ \A j \in 1..Len(schedule) : schedule[j].type = "revision" => CausedByStudy(j)
  /\ StudyOnlyAccounting

\* A day allocated up to its capacity that also carries a revision session.
C22_Witness ==
  /\ pc = "alloc"
  /\ hoursAllocatedToday = maxDailyHours
  /\ \E j \in 1..Len(schedule) :
       /\ schedule[j].type = "revision"
       /\ schedule[j].date = DateStr(currentDate)

\* ------------------------------------------------------------------ C23
\* C23: no step of generateSchedule, mergeSortSubjects included, changes the
\* caller's subjects list (elements, order, field values) or the caller's
\* startDate.
C23_InputsUnchanged == [][subjects' = subjects /\ startDate' = startDate]_vars

\* The call has returned after sorting the list into another order and
\* moving its own date 30 days on.
C23_Witness ==
  /\ pc = "done"
  /\ sortedSubjects # subjects
  /\ currentDate = AddDays(startDate, totalDaysToPlan)
  /\ schedule # <<>>

\* ------------------------------------------------------------------ C24
\* priority at the parent index <= priority at index i, for every i > 0
HeapOrdered(h) ==
  \A i \in 1..(Len(h) - 1) :
    ~PriorityLess(At(h, i).priority, At(h, (i - 1) \div 2).priority)

\* C24: after every insert and extractMin the array is in min-heap order,
\* and its length is the number of inserts less the number of extractMin
\* calls that returned an element.
C24_HeapShape ==
  /\ HeapOrdered(pq)
  /\ Len(pq) = Cardinality(inserted)
               - Cardinality({k \in 1..Len(returned) : returned[k] # Null})

\* A heap of three or more elements of different keys, after extractMin has
\* returned an element and has returned null.
C24_Witness ==
  /\ pc = "heap"
  /\ Len(pq) >= 3
  /\ Cardinality({pq[k].priority : k \in 1..Len(pq)}) >= 2
  /\ ReturnedValues # {}
  /\ \E k \in 1..Len(returned) : returned[k] = Null

\* ------------------------------------------------------------------ C25
StudyItemsOf(i, day) ==
  {k \in 1..Len(schedule) :
     /\ schedule[k].type = "study"
     /\ schedule[k].subjectName = i
     /\ schedule[k].date = day}

\* C25: an entry of the list has at most one study item on any day, so with
\* distinct ids no subject has more than 2 study hours on a day.
C25_OneChunkPerDay ==
  \A day \in Dates(schedule) :
    /\ \A i \in 1..Len(subjects) : Cardinality(StudyItemsOf(i, day)) <= 1
    /\ DistinctIds(subjects) =>
         \A i \in 1..Len(subjects) :
           StudyHoursOfId(SelectSeq(schedule, LAMBDA it : it.date = day), subjects[i].id)
             <= MaxChunk

\* A day has ended with capacity of a full chunk left over although a
\* subject that got its 2 h chunk still has hours remaining.
C25_Witness ==
  /\ EndOfDay
  /\ DistinctIds(subjects)
  /\ maxDailyHours - hoursAllocatedToday >= MaxChunk
  /\ \E i \in 1..Len(subjects) :
       /\ StudiedToday(i)
       /\ remainingHoursMap[subjects[i].id] > 0

\* ------------------------------------------------------------------ C26
TodaysItems == SelectSeq(schedule, LAMBDA it : it.date = DateStr(currentDate))
\* remaining workload of entry i when today started (distinct ids)
RemainingThisMorning(i) ==
  remainingHoursMap[subjects[i].id] + StudyHoursOfId(TodaysItems, subjects[i].id)

\* C26: with distinct ids, when a day ends with less than maxDailyHours
\* allocated, every subject that had hours remaining at its start has a
\* study item of that day of min(2 h, remaining) hours.
C26_WorkConserving ==
  (EndOfDay /\ DistinctIds(subjects) /\ hoursAllocatedToday < maxDailyHours) =>
    \A i \in 1..Len(subjects) :
      RemainingThisMorning(i) > 0 =>
        \E k \in 1..Len(schedule) :
          /\ schedule[k].type = "study"
          /\ schedule[k].subjectName = i
          /\ schedule[k].date = DateStr(currentDate)
          /\ schedule[k].hours = Min(MaxChunk, RemainingThisMorning(i))

\* A day below its capacity on which two subjects were served, one with a
\* full chunk and one with the rest of its workload.
C26_Witness ==
  /\ EndOfDay
  /\ DistinctIds(subjects)
  /\ hoursAllocatedToday < maxDailyHours
  /\ Len(subjects) = 2
  /\ StudiedToday(1)
  /\ StudiedToday(2)
  /\ \E i \in 1..2 : RemainingThisMorning(i) < MaxChunk
  /\ \E i \in 1..2 : RemainingThisMorning(i) > MaxChunk

\* ------------------------------------------------------------------ C27
\* what 30 days of one 2 h chunk a day give
HorizonHours == MaxChunk * totalDaysToPlan
EnoughCapacity == maxDailyHours >= MaxChunk * Len(subjects)
\* number of days a subject of e hours needs: ceil(E / 2)
DaysNeeded(e) == CeilDiv(e, MaxChunk)

\* C27: with distinct ids and maxDailyHours >= 2 h per subject, a subject of
\* E <= 60 h has remaining 0 from the end of day ceil(E/2) - 1 on and no
\* study item after that day, and a subject of E > 60 h ends the horizon
\* with remaining E - 60 h.
C27_CompletionWithinHorizon ==
  (Started /\ DistinctIds(subjects) /\ EnoughCapacity) =>
    \A i \in 1..Len(subjects) :
      LET e == subjects[i].estimatedHours
          id == subjects[i].id
      IN  /\ (e <= HorizonHours /\ d >= DaysNeeded(e)) => remainingHoursMap[id] = 0
          /\ e <= HorizonHours =>
               \A k \in 1..Len(schedule) :
                 (schedule[k].type = "study" /\ schedule[k].subjectId = id) =>
                   schedule[k].date <= DateStr(startDate) + DaysNeeded(e) - 1
          /\ (e > HorizonHours /\ pc = "done") =>
               remainingHoursMap[id] = e - HorizonHours

\* The run has returned: the subject of 60 h got its last chunk on day 29
\* and the subject of 61 h is left with 1 h.
C27_Witness ==
  /\ pc = "done"
  /\ DistinctIds(subjects)
  /\ EnoughCapacity
  /\ \E i, j \in 1..Len(subjects) :
       /\ subjects[i].estimatedHours = HorizonHours
       /\ remainingHoursMap[subjects[i].id] = 0
       /\ StudyItemsOf(i, DateStr(startDate) + totalDaysToPlan - 1) # {}
       /\ subjects[j].estimatedHours > HorizonHours
       /\ remainingHoursMap[subjects[j].id] = 2

====
